---- MODULE Spec2Model ----
(***************************************************************************)
(* Flight scheduler: the ConstraintManager of                              *)
(* src/flight_scheduler/constraint_manager.py, the optimization model it   *)
(* builds, the schedule it extracts and the schedule comparison.           *)
(*                                                                         *)
(* Conventions.                                                            *)
(*  - A time-of-day string "HH:MM" is the pair <<HH, MM>>; parse_time      *)
(*    turns it into minutes.                                               *)
(*  - A pandas cell read from a CSV column of TRUE/FALSE words is written  *)
(*    "bool:True"/"bool:False" when pandas converted the column to bool    *)
(*    and "str:TRUE"/"str:FALSE"/"nan" when the column stayed text.        *)
(*  - Python's None is the empty sequence <<>> and a value v is <<v>>.     *)
(*  - Priority multipliers are kept in tenths (3.0 is 30), so objective    *)
(*    values are in tenths as well.                                        *)
(*  - Row indexes are 1-based (pandas' 0-based index plus one).            *)
(***************************************************************************)
EXTENDS Integers, Sequences, FiniteSets, TLC

VARIABLES
    flights,            \* self.flights: the loaded flight rows
    time_slots,         \* self.time_slots: list of "HH:MM"
    aircraft,           \* self.aircraft: rows with InMaintenance, MaintenanceDue
    crew,               \* self.crew: rows with OnDuty
    previous_schedule,  \* self.previous_schedule (None is <<>>)
    previous_objective, \* self.previous_objective (None is <<>>)
    solved,             \* the optimization engine's last run: its input and outcome
    result,             \* what the last call returned (or that it raised)
    markedUnavailable,  \* history: crew marked unavailable while on duty, not made available since
    grounded,           \* history: aircraft alerted with hours <= 0, no alert above 0 since
    batch,              \* the run of enhanced_scheduler.py in progress: its solved model and output
    crew_csv,           \* data/crew.csv: the crew table as last saved
    aircraft_csv,       \* data/aircraft.csv: the aircraft table as last saved
    log,                \* data/constraint_changes.log: the lines appended since construction
    mutations,          \* history: the update_crew_availability and add_maintenance_alert calls made, in call order
    response,           \* what LLMSchedulerBot.chat returned last (the newest entry of its conversation history)
    threads             \* per caller: the statement of the mutation call it is at, and its local variables

vars == <<flights, time_slots, aircraft, crew, previous_schedule,
          previous_objective, solved, result, markedUnavailable,
          grounded, batch, crew_csv, aircraft_csv, log, mutations,
          response, threads>>

----------------------------------------------------------------------------
(* Bounds and configuration *)

MaxFlights == 2         \* at most this many rows of the flight table are loaded
DelaySlack == 1         \* minutes_delayed is explored up to this far above its lower bound
MaxCompared == 2        \* schedule lists handed to _compare_schedules hold at most this many records
MinuteStep == 120       \* the SLA encoding is tried on the minutes of the day next to each multiple of this
MaxLog == 2             \* mutation calls are made while the log holds fewer lines than this

MIN_TURNAROUND == 30    \* config.MinTurnaroundTimeMinutes
SLA_PENALTY == 100      \* config.SlaPenalty
DELAY_PENALTY == 1      \* config.DelayPenalty
OPTIMAL == 2            \* GRB.OPTIMAL
FUEL_PENALTY == 5       \* getattr(config, 'FuelPenalty', 5)
GATEWAY_PENALTY == 20   \* getattr(config, 'GatewayPenalty', 20)
BigM == 10000           \* the constant of the sla_miss_logic constraints

----------------------------------------------------------------------------
(* The data files *)

FlightTable ==
    << [FlightNumber |-> "UPS101", ScheduledDeparture |-> <<2, 15>>,
        SLADeliveryTime |-> <<6, 0>>, CargoType |-> "Medical",
        CargoPriorityScore |-> 10, Origin |-> "SDF", Destination |-> "JFK",
        DurationMinutes |-> 90],
       [FlightNumber |-> "UPS202", ScheduledDeparture |-> <<1, 40>>,
        SLADeliveryTime |-> <<1, 45>>, CargoType |-> "Standard",
        CargoPriorityScore |-> 5, Origin |-> "SDF", Destination |-> "ORD",
        DurationMinutes |-> 90],
       [FlightNumber |-> "UPS303", ScheduledDeparture |-> <<2, 0>>,
        SLADeliveryTime |-> <<2, 10>>, CargoType |-> "Ground",
        CargoPriorityScore |-> 1, Origin |-> "ATL", Destination |-> "SDF",
        DurationMinutes |-> 60] >>

\* time_slots.csv
SlotTables == { << <<1, 50>>, <<2, 15>> >> }

AircraftIDs == <<"A101", "A105">>
CrewIDs == <<"C01", "C02">>

\* The MaxDutyHours and HoursWorked columns of crew.csv (every row alike)
\* and the MaintenanceDue column of aircraft.csv as first loaded.
CrewDuty == [MaxDutyHours |-> 8, HoursWorked |-> 6]
MaintenanceDueColumn == <<3, 3>>

\* The InMaintenance column of aircraft.csv as written in the file.
InMaintenanceColumns ==
    { <<"FALSE", "FALSE">>, <<"TRUE", "FALSE">>, <<"TRUE", "">> }

\* The words pandas.read_csv turns into booleans.
BoolWords == {"TRUE", "True", "true", "FALSE", "False", "false"}
TrueWords == {"TRUE", "True", "true"}

\* pandas.read_csv on a column of words: all boolean words give a bool column;
\* otherwise the column stays text (an empty cell is NaN).
read_csv_column(cells) ==
    IF \A i \in 1..Len(cells) : cells[i] \in BoolWords
    THEN [i \in 1..Len(cells) |->
            IF cells[i] \in TrueWords THEN "bool:True" ELSE "bool:False"]
    ELSE [i \in 1..Len(cells) |->
            IF cells[i] = "" THEN "nan"
            ELSE IF cells[i] = "TRUE" THEN "str:TRUE" ELSE "str:FALSE"]

\* parse_time = lambda t: int(t.split(":")[0]) * 60 + int(t.split(":")[1])
parse_time(t) == t[1] * 60 + t[2]

\* cargo_priorities, in tenths
cargo_priorities(score) ==
    CASE score = 10 -> 30 [] score = 9 -> 25 [] score = 8 -> 20
      [] score = 7 -> 15 [] score = 6 -> 12 [] score = 5 -> 10
      [] score = 4 -> 8  [] score = 3 -> 6  [] score = 2 -> 4
      [] score = 1 -> 2

\* _preprocess_data on one flight row
PreprocessFlight(row) ==
    [FlightNumber |-> row.FlightNumber,
     CargoType |-> row.CargoType,
     CargoPriorityScore |-> row.CargoPriorityScore,
     Origin |-> row.Origin,
     Destination |-> row.Destination,
     DurationMinutes |-> row.DurationMinutes,
     ScheduledDepartureMin |-> parse_time(row.ScheduledDeparture),
     SLADeliveryTimeMin |-> parse_time(row.SLADeliveryTime),
     PriorityMultiplier |-> cargo_priorities(row.CargoPriorityScore)]

Abs(k) == IF k >= 0 THEN k ELSE 0 - k
Max(a, b) == IF a >= b THEN a ELSE b

----------------------------------------------------------------------------
(* The optimization model built by ConstraintManager._run_optimization.    *)
(* A model m is what the engine is handed: the flight rows and time slots  *)
(* its coefficients come from, the number of aircraft and crew rows (the   *)
(* index sets of the variables), and the rows for which the ac_maint and   *)
(* crew_unavailable constraints were added.                                *)
(* A solved model x gives, per flight row, the values of the decision      *)
(* variables: is_time, aircraft_used, crew_assigned (the sets of indexes   *)
(* whose binary variable is 1), minutes_delayed and sla_missed.            *)

\* Variant: the comparison with 0 is strict.
MaintenanceHold_Strict(ac) ==
    ac.InMaintenance = "str:TRUE" \/ ac.MaintenanceDue < 0

\* if ac['InMaintenance'] == 'TRUE' or ac['MaintenanceDue'] <= 0
MaintenanceHold(ac) ==
    ac.InMaintenance = "str:TRUE" \/ ac.MaintenanceDue <= 0

\* if not cr['OnDuty']
CrewOff(cr) == ~cr.OnDuty

\* The model _run_optimization builds from the data d.
BuildModel(d) ==
    [flights |-> d.flights,
     time_slots |-> d.time_slots,
     n_aircraft |-> Len(d.aircraft),
     n_crew |-> Len(d.crew),
     ac_maint |-> {a_idx \in 1..Len(d.aircraft) :
                      MaintenanceHold(d.aircraft[a_idx])},
     crew_unavailable |-> {c_idx \in 1..Len(d.crew) : CrewOff(d.crew[c_idx])}]

FlightIdx(m) == 1..Len(m.flights)
SlotIdx(m) == 1..Len(m.time_slots)
AircraftIdx(m) == 1..m.n_aircraft
CrewIdx(m) == 1..m.n_crew

RECURSIVE SlotMinuteSum(_, _)
\* gp.quicksum(parse_time(self.time_slots[t]) * is_time[f_idx, t] for t in ...)
SlotMinuteSum(m, S) ==
    IF S = {} THEN 0
    ELSE LET t == CHOOSE t \in S : TRUE
         IN parse_time(m.time_slots[t]) + SlotMinuteSum(m, S \ {t})

RECURSIVE IndexSum(_)
\* gp.quicksum(t * is_time[f_idx, t] for t in ...): the value of departure_time
IndexSum(S) ==
    IF S = {} THEN 0
    ELSE LET t == CHOOSE t \in S : TRUE IN t + IndexSum(S \ {t})

\* name=one_time_{f_idx}
one_time(c) == Cardinality(c.is_time) = 1
\* Variant: the sum is only required to be at least 1.
one_aircraft_AtLeast(c) == Cardinality(c.aircraft_used) >= 1
\* name=one_aircraft_{f_idx}
one_aircraft(c) == Cardinality(c.aircraft_used) = 1
\* name=one_crew_{f_idx}
one_crew(c) == Cardinality(c.crew_assigned) = 1

\* name=ac_maint_{a_idx}_{f_idx}: aircraft_used[f_idx, a_idx] == 0
ac_maint(m, c) == c.aircraft_used \cap m.ac_maint = {}

\* Variant: the constraint is not added.
crew_unavailable_Dropped(m, c) == TRUE
\* name=crew_unavailable_{c_idx}_{f_idx}: crew_assigned[f_idx, c_idx] == 0
crew_unavailable(m, c) == c.crew_assigned \cap m.crew_unavailable = {}

\* name=ac_no_double_{a_idx}_{t}
ac_no_double(m, a) ==
    \A a_idx \in AircraftIdx(m), t \in SlotIdx(m) :
        Cardinality({f \in FlightIdx(m) :
            a_idx \in a[f].aircraft_used /\ t \in a[f].is_time}) <= 1

\* Variant: two flights per crew row and slot are let through.
crew_no_double_Two(m, a) ==
    \A c_idx \in CrewIdx(m), t \in SlotIdx(m) :
        Cardinality({f \in FlightIdx(m) :
            c_idx \in a[f].crew_assigned /\ t \in a[f].is_time}) <= 2
\* name=crew_no_double_{c_idx}_{t}
crew_no_double(m, a) ==
    \A c_idx \in CrewIdx(m), t \in SlotIdx(m) :
        Cardinality({f \in FlightIdx(m) :
            c_idx \in a[f].crew_assigned /\ t \in a[f].is_time}) <= 1

\* The constraints that bind one flight's binary variables.
FlightChoices(m) ==
    {c \in [is_time : SUBSET SlotIdx(m),
            aircraft_used : SUBSET AircraftIdx(m),
            crew_assigned : SUBSET CrewIdx(m)] :
        /\ one_time(c)
        /\ one_aircraft(c)
        /\ one_crew(c)
        /\ ac_maint(m, c)
        /\ crew_unavailable(m, c)}

\* The assignments of the binary variables that satisfy every constraint.
Assignments(m) ==
    {a \in [FlightIdx(m) -> FlightChoices(m)] :
        ac_no_double(m, a) /\ crew_no_double(m, a)}

\* Variant: the constraint is not added.
delay_calc_Dropped(m, f, c, v) == TRUE
\* name=delay_calc_{f_idx}
delay_calc(m, f, c, v) ==
    v >= SlotMinuteSum(m, c.is_time) - m.flights[f].ScheduledDepartureMin
\* name=delay_nonneg_{f_idx}
delay_nonneg(v) == v >= 0

\* The values minutes_delayed[f], sla_missed[f] and gateway_violation[f] may
\* take with the binary variables at c.  All have Gurobi's default lower
\* bound 0; sla_missed and gateway_violation are binary and appear in no
\* constraint; minutes_delayed has no upper bound and is explored DelaySlack
\* around the greater of its two lower bounds.
AuxValues(m, f, c) ==
    LET lb == Max(0, SlotMinuteSum(m, c.is_time)
                       - m.flights[f].ScheduledDepartureMin)
    IN {v \in [minutes_delayed : (lb - DelaySlack)..(lb + DelaySlack),
               sla_missed : {0, 1},
               gateway_violation : {0, 1}] :
            delay_calc(m, f, c, v.minutes_delayed)
            /\ delay_nonneg(v.minutes_delayed)}

\* One flight's terms of the objective (in tenths).  The hazmat and volume
\* indicators appear in no constraint and carry a positive weight, so they
\* are 0 in every optimum and add nothing.
FlightCost(m, f, v) ==
    DELAY_PENALTY * v.minutes_delayed * m.flights[f].PriorityMultiplier
    + SLA_PENALTY * v.sla_missed * m.flights[f].PriorityMultiplier
    + 10 * (GATEWAY_PENALTY * v.gateway_violation)

MinFlightCost(m, f, c) ==
    LET costs == {FlightCost(m, f, v) : v \in AuxValues(m, f, c)}
    IN CHOOSE k \in costs : \A j \in costs : k <= j

BestAux(m, f, c) ==
    {v \in AuxValues(m, f, c) : FlightCost(m, f, v) = MinFlightCost(m, f, c)}

RECURSIVE AssignCost(_, _, _)
AssignCost(m, a, n) ==
    IF n = 0 THEN 0
    ELSE MinFlightCost(m, n, a[n]) + AssignCost(m, a, n - 1)

RECURSIVE AuxProd(_, _, _)
AuxProd(m, a, n) ==
    IF n = 0 THEN {<<>>}
    ELSE {Append(p, v) : p \in AuxProd(m, a, n - 1), v \in BestAux(m, n, a[n])}

RECURSIVE ObjVal(_, _, _)
\* model.ObjVal of a solved model x
ObjVal(m, x, n) ==
    IF n = 0 THEN 0
    ELSE FlightCost(m, n, x[n]) + ObjVal(m, x, n - 1)

\* The optimal solutions of the model m.
OptimalSolutions(m) ==
    LET n == Len(m.flights)
        as == Assignments(m)
        cost == [a \in as |-> AssignCost(m, a, n)]
        best == {a \in as : \A b \in as : cost[a] <= cost[b]}
    IN UNION { { [f \in 1..n |->
                    [is_time |-> a[f].is_time,
                     aircraft_used |-> a[f].aircraft_used,
                     crew_assigned |-> a[f].crew_assigned,
                     minutes_delayed |-> v[f].minutes_delayed,
                     sla_missed |-> v[f].sla_missed,
                     gateway_violation |-> v[f].gateway_violation]]
                 : v \in AuxProd(m, a, n) }
               : a \in best }

\* One crew row's term of the objective (in tenths): 10 * overtime[c_idx]
OvertimeCost(ot) == 10 * (10 * ot)

RECURSIVE OvertimeSum(_, _)
\* gp.quicksum(10 * overtime[c_idx] for c_idx in ...), over the first k rows
OvertimeSum(ot, k) ==
    IF k = 0 THEN 0 ELSE OvertimeCost(ot[k]) + OvertimeSum(ot, k - 1)

\* The values of the overtime variables in the manager's model: integer,
\* with Gurobi's default lower bound 0, in no constraint, and explored up to
\* DelaySlack above that bound.
OvertimeChoices(m) == [CrewIdx(m) -> 0..DelaySlack]

\* The values of the overtime variables in an optimum of m.
BestOvertime(m) ==
    {ot \in OvertimeChoices(m) :
        \A o \in OvertimeChoices(m) :
            OvertimeSum(ot, m.n_crew) <= OvertimeSum(o, m.n_crew)}

\* Every model the data of this module can give rise to.
Models ==
    [flights : {[i \in 1..n |-> PreprocessFlight(FlightTable[i])] :
                    n \in 0..MaxFlights},
     time_slots : SlotTables,
     n_aircraft : {Len(AircraftIDs)},
     n_crew : {Len(CrewIDs)},
     ac_maint : SUBSET (1..Len(AircraftIDs)),
     crew_unavailable : SUBSET (1..Len(CrewIDs))]

\* The engine's answer for each model, computed once.
SolutionTable == {<<m, OptimalSolutions(m)>> : m \in Models}

\* model.optimize(): the optimal solutions of m (none when m is infeasible).
Solve(m) == (CHOOSE p \in SolutionTable : p[1] = m)[2]

----------------------------------------------------------------------------
(* The model built by the batch script enhanced_scheduler.py.  It has the  *)
(* constraints one_time, one_aircraft, one_crew, delay_calc, delay_nonneg, *)
(* ac_no_double, ac_maint and crew_no_double in the words of the manager's *)
(* model, no crew_unavailable constraint, and the constraints below.       *)

\* The index and the columns of certification_matrix.
MatrixIndex == <<"A101", "A102", "A103", "A104", "A105", "A106">>
certification_matrix ==
    [C01 |-> <<1, 1, 0, 1, 0, 1>>, C02 |-> <<1, 0, 1, 1, 1, 0>>,
     C03 |-> <<0, 1, 1, 0, 1, 1>>, C04 |-> <<1, 1, 1, 1, 0, 1>>,
     C05 |-> <<0, 1, 1, 1, 1, 0>>, C06 |-> <<1, 0, 1, 0, 1, 1>>,
     C07 |-> <<1, 1, 0, 1, 1, 1>>, C08 |-> <<0, 1, 1, 1, 0, 1>>]
gateway_compatibility ==
    [SDF |-> <<1, 1, 1, 1, 1, 1>>, ORD |-> <<1, 1, 1, 1, 1, 1>>,
     JFK |-> <<1, 1, 1, 1, 0, 1>>, ATL |-> <<1, 1, 1, 1, 1, 1>>,
     LAX |-> <<1, 1, 1, 1, 1, 1>>, DFW |-> <<1, 1, 1, 1, 1, 1>>]

\* df.loc[row, col] of a frame indexed by AircraftID
loc(df, row, col) ==
    df[col][CHOOSE i \in 1..Len(MatrixIndex) : MatrixIndex[i] = row]

FLIGHT_WINDOW_START == parse_time(<<2, 0>>)
FLIGHT_WINDOW_END == parse_time(<<8, 0>>)

Ind(b) == IF b THEN 1 ELSE 0

\* The model enhanced_scheduler.py builds from the data files d: cert,
\* gateway_origin and gateway_dest are the index pairs a constraint of that
\* name was added for, budget the right-hand side of crew_overtime.
BuildEnhancedModel(d) ==
    [flights |-> d.flights,
     time_slots |-> d.time_slots,
     n_aircraft |-> Len(d.aircraft),
     n_crew |-> Len(d.crew),
     ac_maint |-> {a_idx \in 1..Len(d.aircraft) :
                      MaintenanceHold(d.aircraft[a_idx])},
     cert |-> {p \in (1..Len(d.aircraft)) \X (1..Len(d.crew)) :
                  loc(certification_matrix, d.aircraft[p[1]].AircraftID,
                      d.crew[p[2]].CrewID) = 0},
     gateway_origin |->
         {p \in (1..Len(d.flights)) \X (1..Len(d.aircraft)) :
             loc(gateway_compatibility, d.aircraft[p[2]].AircraftID,
                 d.flights[p[1]].Origin) = 0},
     gateway_dest |->
         {p \in (1..Len(d.flights)) \X (1..Len(d.aircraft)) :
             loc(gateway_compatibility, d.aircraft[p[2]].AircraftID,
                 d.flights[p[1]].Destination) = 0},
     budget |-> [c_idx \in 1..Len(d.crew) |->
                    d.crew[c_idx].MaxDutyHours * 60
                    - d.crew[c_idx].HoursWorked * 60]]

\* name=sla_miss_logic1_{f_idx}
sla_miss_logic1(m, f, c, v) ==
    SlotMinuteSum(m, c.is_time)
        <= m.flights[f].SLADeliveryTimeMin + BigM * v.sla_missed
\* Variant: the "+ 1" is left out of the right-hand side.
sla_miss_logic2_NoPlusOne(m, f, c, v) ==
    SlotMinuteSum(m, c.is_time)
        >= m.flights[f].SLADeliveryTimeMin - BigM * (1 - v.sla_missed)
\* name=sla_miss_logic2_{f_idx}
sla_miss_logic2(m, f, c, v) ==
    SlotMinuteSum(m, c.is_time)
        >= m.flights[f].SLADeliveryTimeMin + 1 - BigM * (1 - v.sla_missed)

\* name=cert_{f_idx}_{a_idx}_{c_idx}
cert(m, c) ==
    \A p \in m.cert :
        Ind(p[1] \in c.aircraft_used) + Ind(p[2] \in c.crew_assigned) <= 1

\* name=gateway_origin_{f_idx}_{a_idx}
gateway_origin(m, f, c, v) ==
    \A p \in m.gateway_origin :
        p[1] = f => Ind(p[2] \in c.aircraft_used) <= v.gateway_violation
\* name=gateway_dest_{f_idx}_{a_idx}
gateway_dest(m, f, c, v) ==
    \A p \in m.gateway_dest :
        p[1] = f => Ind(p[2] \in c.aircraft_used) <= v.gateway_violation

\* total_minutes of the crew row c_idx under the assignment a
RECURSIVE total_minutes(_, _, _, _)
total_minutes(m, a, c_idx, n) ==
    IF n = 0 THEN 0
    ELSE Ind(c_idx \in a[n].crew_assigned)
            * (m.flights[n].DurationMinutes + MIN_TURNAROUND)
         + total_minutes(m, a, c_idx, n - 1)

\* name=crew_overtime_{c_idx}
crew_overtime(m, a, c_idx, ot) ==
    ot >= total_minutes(m, a, c_idx, Len(m.flights)) - m.budget[c_idx]
\* name=crew_overtime_nonneg_{c_idx}
crew_overtime_nonneg(ot) == ot >= 0

\* name=turnaround_{a_idx}_{f1}_{f2}_{t1}_{t2}
turnaround(m, a) ==
    \A a_idx \in AircraftIdx(m), f1 \in FlightIdx(m), f2 \in FlightIdx(m),
       t1 \in SlotIdx(m), t2 \in SlotIdx(m) :
        (f1 < f2 /\ Abs(parse_time(m.time_slots[t1])
                        - parse_time(m.time_slots[t2])) < MIN_TURNAROUND)
        => Ind(a_idx \in a[f1].aircraft_used)
           + Ind(a_idx \in a[f2].aircraft_used)
           + Ind(t1 \in a[f1].is_time) + Ind(t2 \in a[f2].is_time) <= 3

\* name=window_start_{f_idx}
window_start(m, c) == SlotMinuteSum(m, c.is_time) >= FLIGHT_WINDOW_START
\* name=window_end_{f_idx}
window_end(m, c) == SlotMinuteSum(m, c.is_time) <= FLIGHT_WINDOW_END

\* base_fuel = flight['DurationMinutes'] * 2
base_fuel(m, f) == m.flights[f].DurationMinutes * 2
\* name=fuel_base_{f_idx}
fuel_base(m, f, v) == v.fuel_cost >= base_fuel(m, f)
\* name=fuel_delay_{f_idx}
fuel_delay(m, f, v) == v.fuel_cost >= base_fuel(m, f) + v.minutes_delayed

\* The constraints that bind one flight's binary variables.
EnhancedFlightChoices(m) ==
    {c \in [is_time : SUBSET SlotIdx(m),
            aircraft_used : SUBSET AircraftIdx(m),
            crew_assigned : SUBSET CrewIdx(m)] :
        /\ one_time(c)
        /\ one_aircraft(c)
        /\ one_crew(c)
        /\ cert(m, c)
        /\ ac_maint(m, c)
        /\ window_start(m, c)
        /\ window_end(m, c)}

\* The assignments of the binary variables that satisfy every constraint.
EnhancedAssignments(m) ==
    {a \in [FlightIdx(m) -> EnhancedFlightChoices(m)] :
        ac_no_double(m, a) /\ crew_no_double(m, a) /\ turnaround(m, a)}

\* The values of one flight's other variables with the binary variables at
\* c.  minutes_delayed and fuel_cost have no upper bound and are explored
\* DelaySlack around their lower bounds.
EnhancedAuxValues(m, f, c) ==
    LET lb == Max(0, SlotMinuteSum(m, c.is_time)
                       - m.flights[f].ScheduledDepartureMin)
        fb == base_fuel(m, f) + lb
    IN {v \in [minutes_delayed : (lb - DelaySlack)..(lb + DelaySlack),
               sla_missed : {0, 1},
               gateway_violation : {0, 1},
               fuel_cost : (fb - DelaySlack)..(fb + DelaySlack)] :
            /\ delay_calc(m, f, c, v.minutes_delayed)
            /\ delay_nonneg(v.minutes_delayed)
            /\ sla_miss_logic1(m, f, c, v)
            /\ sla_miss_logic2(m, f, c, v)
            /\ gateway_origin(m, f, c, v)
            /\ gateway_dest(m, f, c, v)
            /\ fuel_base(m, f, v)
            /\ fuel_delay(m, f, v)}

\* The values of overtime[c_idx] under the assignment a.
OvertimeValues(m, a, c_idx) ==
    LET lb == Max(0, total_minutes(m, a, c_idx, Len(m.flights))
                       - m.budget[c_idx])
    IN {ot \in (lb - DelaySlack)..(lb + DelaySlack) :
            crew_overtime(m, a, c_idx, ot) /\ crew_overtime_nonneg(ot)}

\* One flight's terms of the enhanced objective (in tenths).
EnhancedFlightCost(m, f, v) ==
    DELAY_PENALTY * v.minutes_delayed * m.flights[f].PriorityMultiplier
    + SLA_PENALTY * v.sla_missed * m.flights[f].PriorityMultiplier
    + 10 * (FUEL_PENALTY * v.fuel_cost)
    + 10 * (GATEWAY_PENALTY * v.gateway_violation)

RECURSIVE EnhancedObjVal(_, _, _, _)
\* model.ObjVal of the solved model with flight values x and overtime ot
EnhancedObjVal(m, x, ot, n) ==
    IF n = 0
    THEN OvertimeSum(ot, m.n_crew)
    ELSE EnhancedFlightCost(m, n, x[n]) + EnhancedObjVal(m, x, ot, n - 1)

\* Every value the variables can take together under the constraints.
EnhancedFeasible(m) ==
    UNION {
        {[x |-> [f \in FlightIdx(m) |->
                    [is_time |-> a[f].is_time,
                     aircraft_used |-> a[f].aircraft_used,
                     crew_assigned |-> a[f].crew_assigned,
                     minutes_delayed |-> v[f].minutes_delayed,
                     sla_missed |-> v[f].sla_missed,
                     gateway_violation |-> v[f].gateway_violation,
                     fuel_cost |-> v[f].fuel_cost]],
          overtime |-> ot]
            : v \in {w \in [FlightIdx(m) ->
                              UNION {EnhancedAuxValues(m, f, a[f]) :
                                        f \in FlightIdx(m)}] :
                        \A f \in FlightIdx(m) :
                            w[f] \in EnhancedAuxValues(m, f, a[f])},
              ot \in {o \in [CrewIdx(m) ->
                               UNION {OvertimeValues(m, a, c_idx) :
                                         c_idx \in CrewIdx(m)}] :
                         \A c_idx \in CrewIdx(m) :
                             o[c_idx] \in OvertimeValues(m, a, c_idx)}}
        : a \in EnhancedAssignments(m)}

\* The optimal solutions of the enhanced model m.
EnhancedOptimalSolutions(m) ==
    LET n == Len(m.flights)
        costs == {<<s, EnhancedObjVal(m, s.x, s.overtime, n)>> :
                     s \in EnhancedFeasible(m)}
    IN {p[1] : p \in {q \in costs : \A r \in costs : q[2] <= r[2]}}

\* Every enhanced model the data of this module can give rise to.
EnhancedModels ==
    {BuildEnhancedModel(
        [flights |-> [i \in 1..n |-> PreprocessFlight(FlightTable[i])],
         time_slots |-> ts,
         aircraft |-> [i \in 1..Len(AircraftIDs) |->
                          [AircraftID |-> AircraftIDs[i],
                           InMaintenance |-> IF i \in held THEN "str:TRUE"
                                             ELSE "str:FALSE",
                           MaintenanceDue |-> MaintenanceDueColumn[i]]],
         crew |-> [i \in 1..Len(CrewIDs) |->
                      [CrewID |-> CrewIDs[i], OnDuty |-> TRUE,
                       MaxDutyHours |-> CrewDuty.MaxDutyHours,
                       HoursWorked |-> CrewDuty.HoursWorked]]])
        : n \in 0..MaxFlights, ts \in SlotTables,
          held \in SUBSET (1..Len(AircraftIDs))}

\* The engine's answer for each enhanced model, computed once.
EnhancedSolutionTable ==
    {<<m, EnhancedOptimalSolutions(m)>> : m \in EnhancedModels}

\* model.optimize() of enhanced_scheduler.py
EnhancedSolve(m) == (CHOOSE p \in EnhancedSolutionTable : p[1] = m)[2]

----------------------------------------------------------------------------
(* Schedule extraction and comparison *)

Min(S) == CHOOSE m \in S : \A k \in S : m <= k

\* _extract_schedule raises when a variable has no value to read (no
\* solution), when dep_slot is no index of time_slots, or when ac_idx or
\* cr_idx stays None.
ExtractRaises(d, o) ==
    \/ o.status # "optimal" /\ Len(d.flights) > 0
    \/ /\ o.status = "optimal"
       /\ \E f \in 1..Len(d.flights) :
            \/ IndexSum(o.x[f].is_time) \notin 1..Len(d.time_slots)
            \/ o.x[f].aircraft_used = {}
            \/ o.x[f].crew_assigned = {}

\* ConstraintManager._extract_schedule
_extract_schedule(d, x) ==
    [f \in 1..Len(d.flights) |->
        LET dep_slot == IndexSum(x[f].is_time)
            ac_idx == Min(x[f].aircraft_used)
            cr_idx == Min(x[f].crew_assigned)
        IN [flight_number |-> d.flights[f].FlightNumber,
            departure_time |-> d.time_slots[dep_slot],
            aircraft |-> d.aircraft[ac_idx].AircraftID,
            crew |-> d.crew[cr_idx].CrewID,
            cargo_type |-> d.flights[f].CargoType,
            priority |-> d.flights[f].CargoPriorityScore,
            delay |-> x[f].minutes_delayed]]

\* One line of the change list.  The f-strings of _compare_schedules keep
\* the flight number, the wording and the values; a line is that content.
Line(kind, flight, from, to, minutes) ==
    [kind |-> kind, flight |-> flight, from |-> from, to |-> to,
     minutes |-> minutes]

NoChangesDetected == Line("No changes detected", "", "", "", 0)

\* Variant: abs() is left out of the "Reduced delay by" line.
FlightChanges_NoAbs(old_flight, new_flight) ==
    (IF old_flight.aircraft # new_flight.aircraft
     THEN <<Line("Aircraft changed", old_flight.flight_number,
                 old_flight.aircraft, new_flight.aircraft, 0)>>
     ELSE <<>>)
    \o
    (IF old_flight.crew # new_flight.crew
     THEN <<Line("Crew changed", old_flight.flight_number,
                 old_flight.crew, new_flight.crew, 0)>>
     ELSE <<>>)
    \o
    (IF old_flight.delay # new_flight.delay
     THEN LET delay_diff == new_flight.delay - old_flight.delay
          IN IF delay_diff > 0
             THEN <<Line("Delayed by", old_flight.flight_number, "", "",
                         delay_diff)>>
             ELSE <<Line("Reduced delay by", old_flight.flight_number, "", "",
                         delay_diff)>>
     ELSE <<>>)

\* Variant: the elif branch is missing, a lower delay is not reported.
FlightChanges_NoReduced(old_flight, new_flight) ==
    (IF old_flight.aircraft # new_flight.aircraft
     THEN <<Line("Aircraft changed", old_flight.flight_number,
                 old_flight.aircraft, new_flight.aircraft, 0)>>
     ELSE <<>>)
    \o
    (IF old_flight.crew # new_flight.crew
     THEN <<Line("Crew changed", old_flight.flight_number,
                 old_flight.crew, new_flight.crew, 0)>>
     ELSE <<>>)
    \o
    (IF new_flight.delay - old_flight.delay > 0
     THEN <<Line("Delayed by", old_flight.flight_number, "", "",
                 new_flight.delay - old_flight.delay)>>
     ELSE <<>>)

\* The lines _compare_schedules appends for one zipped pair.
FlightChanges(old_flight, new_flight) ==
    (IF old_flight.aircraft # new_flight.aircraft
     THEN <<Line("Aircraft changed", old_flight.flight_number,
                 old_flight.aircraft, new_flight.aircraft, 0)>>
     ELSE <<>>)
    \o
    (IF old_flight.crew # new_flight.crew
     THEN <<Line("Crew changed", old_flight.flight_number,
                 old_flight.crew, new_flight.crew, 0)>>
     ELSE <<>>)
    \o
    (IF old_flight.delay # new_flight.delay
     THEN LET delay_diff == new_flight.delay - old_flight.delay
          IN IF delay_diff > 0
             THEN <<Line("Delayed by", old_flight.flight_number, "", "",
                         delay_diff)>>
             ELSE IF delay_diff < 0
             THEN <<Line("Reduced delay by", old_flight.flight_number, "", "",
                         0 - delay_diff)>>
             ELSE <<>>
     ELSE <<>>)

RECURSIVE ZipChanges(_, _, _)
ZipChanges(old_schedule, new_schedule, n) ==
    IF n = 0 THEN <<>>
    ELSE ZipChanges(old_schedule, new_schedule, n - 1)
         \o FlightChanges(old_schedule[n], new_schedule[n])

\* ConstraintManager._compare_schedules
_compare_schedules(old_schedule, new_schedule) ==
    LET n == IF Len(old_schedule) <= Len(new_schedule)
             THEN Len(old_schedule) ELSE Len(new_schedule)
        changes == ZipChanges(old_schedule, new_schedule, n)
    IN IF changes # <<>> THEN changes ELSE <<NoChangesDetected>>

----------------------------------------------------------------------------
(* The ConstraintManager *)

None == <<>>
\* Python's truth value of self.previous_schedule: None and [] are false.
Truthy(opt) == opt # None /\ opt[1] # <<>>

\* The value of result['changes']: a string, a list of lines, or no such key.
ChangesStr(s) == [kind |-> "str", str |-> s, list |-> <<>>]
ChangesList(l) == [kind |-> "list", str |-> "", list |-> l]
ChangesAbsent == [kind |-> "absent", str |-> "", list |-> <<>>]

Data(ac, cr) ==
    [flights |-> flights, time_slots |-> time_slots, aircraft |-> ac,
     crew |-> cr]

NoCall == [op |-> "none", id |-> "", arg |-> 0, flag |-> FALSE]
Call(op, id, arg, flag) == [op |-> op, id |-> id, arg |-> arg, flag |-> flag]

\* The last call returned from a completed optimization run.
RunCompleted == result.outcome = "returned" /\ result.solved_now

Raised(call) ==
    [call |-> call, outcome |-> "raised", schedule |-> <<>>,
     objective_value |-> 0, status |-> 0, has_status |-> FALSE,
     changes |-> ChangesAbsent, baseline |-> previous_schedule,
     solved_now |-> FALSE, after_run |-> RunCompleted]

\* model.optimize() on the model built from d.  The engine is deterministic:
\* handed the model of its last run again it ends the same way.  On another
\* model it may return any optimal solution, or none when there is none.
Optimize(d) ==
    LET m == BuildModel(d)
    IN IF solved.status # "none" /\ solved.model = <<m>>
       THEN {solved}
       ELSE LET sols == Solve(m)
            IN IF sols = {}
               THEN {[status |-> "infeasible", x |-> <<>>, overtime |-> <<>>,
                      model |-> <<m>>]}
               ELSE {[status |-> "optimal", x |-> x, overtime |-> ot,
                      model |-> <<m>>] :
                        x \in sols, ot \in BestOvertime(m)}

\* Variant: a schedule is stored only while none is stored.
StoreSchedule_OnlyFirst(schedule) ==
    IF previous_schedule = None THEN <<schedule>> ELSE previous_schedule

\* self.previous_schedule = result['schedule']: the value stored
StoreSchedule(schedule) == <<schedule>>

\* ConstraintManager.reoptimize, run on the data d by the call `call`.
reoptimize(d, call) ==
    \E o \in Optimize(d) :
        /\ solved' = o
        /\ IF ExtractRaises(d, o)
           THEN /\ result' = Raised(call)
                /\ UNCHANGED <<previous_schedule, previous_objective>>
           ELSE LET old_schedule ==
                        IF Truthy(previous_schedule)
                        THEN previous_schedule ELSE None
                    schedule == _extract_schedule(d, o.x)
                    objective_value ==
                        ObjVal(BuildModel(d), o.x, Len(d.flights))
                        + OvertimeSum(o.overtime, Len(d.crew))
                IN /\ previous_schedule' = StoreSchedule(schedule)
                   /\ previous_objective' = <<objective_value>>
                   /\ result' =
                        [call |-> call, outcome |-> "returned",
                         schedule |-> schedule,
                         objective_value |-> objective_value,
                         status |-> OPTIMAL, has_status |-> TRUE,
                         changes |->
                            IF Truthy(old_schedule)
                            THEN ChangesList(
                                   _compare_schedules(old_schedule[1], schedule))
                            ELSE ChangesStr("Initial optimization"),
                         baseline |-> previous_schedule,
                         solved_now |-> TRUE, after_run |-> RunCompleted]

\* The identifiers and values the calls are made with.
CrewIdInputs == {CrewIDs[i] : i \in 1..Len(CrewIDs)} \cup {"C99"}
AircraftIdInputs == {AircraftIDs[i] : i \in 1..Len(AircraftIDs)} \cup {"A999"}
HoursInputs == {-1, 0, 3}

\* DataFrame.to_csv of one cell of a TRUE/FALSE column: a bool is written
\* True or False, a string as it is, NaN as the empty cell.
WriteCell(cell) ==
    CASE cell = "bool:True" -> "True"
      [] cell = "bool:False" -> "False"
      [] cell = "str:TRUE" -> "TRUE"
      [] cell = "str:FALSE" -> "FALSE"
      [] OTHER -> ""

\* self.aircraft.to_csv(.../aircraft.csv, index=False)
aircraft_to_csv(ac) ==
    [i \in 1..Len(ac) |-> [ac[i] EXCEPT !.InMaintenance = WriteCell(@)]]

\* pd.read_csv(.../aircraft.csv)
read_aircraft_csv(file) ==
    LET col == read_csv_column([i \in 1..Len(file) |-> file[i].InMaintenance])
    IN [i \in 1..Len(file) |-> [file[i] EXCEPT !.InMaintenance = col[i]]]

\* self.crew.to_csv(.../crew.csv, index=False): OnDuty is a bool column.
crew_to_csv(cr) ==
    [i \in 1..Len(cr) |->
        [cr[i] EXCEPT !.OnDuty = IF @ THEN "True" ELSE "False"]]

\* pd.read_csv(.../crew.csv): OnDuty holds boolean words only.
read_crew_csv(file) ==
    [i \in 1..Len(file) |-> [file[i] EXCEPT !.OnDuty = (@ \in TrueWords)]]

\* The line update_crew_availability hands to _log_change.
CrewLine(crew_id, available) ==
    [subject |-> "Crew", id |-> crew_id, hours |-> 0, available |-> available]
\* The line add_maintenance_alert hands to _log_change.
AircraftLine(aircraft_id, hours) ==
    [subject |-> "Aircraft", id |-> aircraft_id, hours |-> hours,
     available |-> FALSE]

\* Variant: the file is opened with 'w', so the line replaces the log.
_log_change_Overwrite(change_description) == <<change_description>>

\* ConstraintManager._log_change: the file opened with 'a' and one line
\* written.  The timestamp in front of the description is left out.
_log_change(change_description) == Append(log, change_description)

\* Variant: the row mask is ignored and every row is assigned.
SetOnDuty_EveryRow(cr, crew_id, available) ==
    [i \in 1..Len(cr) |-> [cr[i] EXCEPT !.OnDuty = available]]

\* self.crew.loc[self.crew['CrewID'] == crew_id, 'OnDuty'] = available
SetOnDuty(cr, crew_id, available) ==
    [i \in 1..Len(cr) |->
        IF cr[i].CrewID = crew_id
        THEN [cr[i] EXCEPT !.OnDuty = available] ELSE cr[i]]

\* self.aircraft.loc[self.aircraft['AircraftID'] == aircraft_id, 'MaintenanceDue'] = hours
SetMaintenanceDue(ac, aircraft_id, hours) ==
    [i \in 1..Len(ac) |->
        IF ac[i].AircraftID = aircraft_id
        THEN [ac[i] EXCEPT !.MaintenanceDue = hours] ELSE ac[i]]

\* ConstraintManager.update_crew_availability
update_crew_availability(crew_id, available) ==
    LET cr == SetOnDuty(crew, crew_id, available)
    IN /\ Len(log) < MaxLog
       /\ crew' = cr
       /\ crew_csv' = crew_to_csv(cr)
       /\ log' = _log_change(CrewLine(crew_id, available))
       /\ mutations' = Append(mutations,
              Call("update_crew_availability", crew_id, 0, available))
       /\ markedUnavailable' =
            IF available THEN markedUnavailable \ {crew_id}
            ELSE IF \E i \in 1..Len(crew) :
                        crew[i].CrewID = crew_id /\ crew[i].OnDuty
                 THEN markedUnavailable \cup {crew_id}
                 ELSE markedUnavailable
       /\ reoptimize(Data(aircraft, cr),
                     Call("update_crew_availability", crew_id, 0, available))
       /\ UNCHANGED <<flights, time_slots, aircraft, grounded, batch,
                      aircraft_csv>>

\* ConstraintManager.add_maintenance_alert
add_maintenance_alert(aircraft_id, hours) ==
    LET ac == SetMaintenanceDue(aircraft, aircraft_id, hours)
    IN /\ Len(log) < MaxLog
       /\ aircraft' = ac
       /\ aircraft_csv' = aircraft_to_csv(ac)
       /\ log' = _log_change(AircraftLine(aircraft_id, hours))
       /\ mutations' = Append(mutations,
              Call("add_maintenance_alert", aircraft_id, hours, FALSE))
       /\ grounded' =
            IF hours > 0 THEN grounded \ {aircraft_id}
            ELSE IF \E i \in 1..Len(aircraft) :
                        aircraft[i].AircraftID = aircraft_id
                 THEN grounded \cup {aircraft_id}
                 ELSE grounded
       /\ reoptimize(Data(ac, crew),
                     Call("add_maintenance_alert", aircraft_id, hours, FALSE))
       /\ UNCHANGED <<flights, time_slots, crew, markedUnavailable, batch,
                      crew_csv>>

\* A direct call of ConstraintManager.reoptimize: a recompute request.
Recompute ==
    /\ reoptimize(Data(aircraft, crew), Call("reoptimize", "", 0, FALSE))
    /\ UNCHANGED <<flights, time_slots, aircraft, crew, markedUnavailable,
                   grounded, batch, crew_csv, aircraft_csv, log,
                   mutations>>

\* Variant: the stored baseline is ignored and every call reoptimizes.
get_current_schedule_Rerun ==
    /\ reoptimize(Data(aircraft, crew),
                  Call("get_current_schedule", "", 0, FALSE))
    /\ UNCHANGED <<flights, time_slots, aircraft, crew, markedUnavailable,
                   grounded, batch, crew_csv, aircraft_csv, log,
                   mutations>>

\* ConstraintManager.get_current_schedule
get_current_schedule ==
    LET call == Call("get_current_schedule", "", 0, FALSE)
    IN IF Truthy(previous_schedule)
       THEN /\ result' =
                [call |-> call, outcome |-> "returned",
                 schedule |-> previous_schedule[1],
                 objective_value |-> previous_objective[1],
                 status |-> 0, has_status |-> FALSE,
                 changes |-> ChangesAbsent, baseline |-> previous_schedule,
                 solved_now |-> FALSE, after_run |-> RunCompleted]
            /\ UNCHANGED <<flights, time_slots, aircraft, crew,
                           previous_schedule, previous_objective, solved,
                           markedUnavailable, grounded, batch, crew_csv,
                           aircraft_csv, log,
                   mutations>>
       ELSE /\ reoptimize(Data(aircraft, crew), call)
            /\ UNCHANGED <<flights, time_slots, aircraft, crew,
                           markedUnavailable, grounded, batch, crew_csv,
                           aircraft_csv, log,
                   mutations>>

\* No script is running.
NoBatch ==
    [script |-> "none", outcome |-> "none", x |-> <<>>, overtime |-> <<>>,
     schedule |-> <<>>, objective_value |-> 0]

\* The "ENHANCED OPTIMIZED SCHEDULE" lines enhanced_scheduler.py prints
enhanced_output(d, x) ==
    [f \in 1..Len(d.flights) |->
        LET dep_slot == IndexSum(x[f].is_time)
            ac_idx == Min(x[f].aircraft_used)
            cr_idx == Min(x[f].crew_assigned)
        IN [flight_number |-> d.flights[f].FlightNumber,
            priority |-> d.flights[f].CargoPriorityScore,
            departure_time |-> d.time_slots[dep_slot],
            aircraft |-> d.aircraft[ac_idx].AircraftID,
            crew |-> d.crew[cr_idx].CrewID,
            sla_missed |-> x[f].sla_missed,
            gateway_violation |-> x[f].gateway_violation]]

\* A run of the script enhanced_scheduler.py on the data files, which hold
\* the tables as the manager last saved them.  Without a solution the first
\* read of a variable's value raises and the script ends with a traceback.
enhanced_scheduler ==
    LET d == Data(read_aircraft_csv(aircraft_csv), read_crew_csv(crew_csv))
        m == BuildEnhancedModel(d)
        sols == EnhancedSolve(m)
    IN /\ batch.script = "none"
       /\ IF sols = {}
          THEN batch' = [script |-> "enhanced_scheduler", outcome |-> "raised",
                         x |-> <<>>, overtime |-> <<>>, schedule |-> <<>>,
                         objective_value |-> 0]
          ELSE \E s \in sols :
                 batch' = [script |-> "enhanced_scheduler",
                           outcome |-> "printed",
                           x |-> s.x, overtime |-> s.overtime,
                           schedule |-> enhanced_output(d, s.x),
                           objective_value |->
                               EnhancedObjVal(m, s.x, s.overtime,
                                              Len(d.flights))]
       /\ UNCHANGED <<flights, time_slots, aircraft, crew, previous_schedule,
                      previous_objective, solved, result, markedUnavailable,
                      grounded, crew_csv, aircraft_csv, log,
                   mutations>>

\* The script's process ends.
enhanced_scheduler_exit ==
    /\ batch.script # "none"
    /\ batch' = NoBatch
    /\ UNCHANGED <<flights, time_slots, aircraft, crew, previous_schedule,
                   previous_objective, solved, result, markedUnavailable,
                   grounded, crew_csv, aircraft_csv, log,
                   mutations>>

\* The structured command the language model hands to _execute_action.
Command(action, crew_id, aircraft_id, hours) ==
    [action |-> action, crew_id |-> crew_id, aircraft_id |-> aircraft_id,
     hours |-> hours]

\* The callers.
Threads == {1, 2}

\* A caller that is in no call.
IdleThread == [pc |-> "idle", call |-> NoCall, old_schedule |-> None,
               schedule |-> <<>>, objective_value |-> 0]

\* No message was handled yet.
NoResponse ==
    [command |-> Command("none", None, None, None),
     kind |-> "none", text |-> "", status |-> "", has_changes |-> FALSE,
     bullets |-> <<>>, schedule |-> <<>>, more |-> 0, objective_value |-> 0]

\* ConstraintManager.__init__ and load_data
Init ==
    /\ \E n \in 0..MaxFlights :
         flights = [i \in 1..n |-> PreprocessFlight(FlightTable[i])]
    /\ time_slots \in SlotTables
    /\ \E col \in InMaintenanceColumns :
         aircraft_csv = [i \in 1..Len(AircraftIDs) |->
                            [AircraftID |-> AircraftIDs[i],
                             InMaintenance |-> col[i],
                             MaintenanceDue |-> MaintenanceDueColumn[i]]]
    /\ aircraft = read_aircraft_csv(aircraft_csv)
    /\ crew_csv = [i \in 1..Len(CrewIDs) |->
                      [CrewID |-> CrewIDs[i], OnDuty |-> "TRUE",
                       MaxDutyHours |-> CrewDuty.MaxDutyHours,
                       HoursWorked |-> CrewDuty.HoursWorked]]
    /\ crew = read_crew_csv(crew_csv)
    /\ previous_schedule = None
    /\ previous_objective = None
    /\ solved = [status |-> "none", x |-> <<>>, overtime |-> <<>>,
                 model |-> None]
    /\ result = [call |-> NoCall, outcome |-> "none", schedule |-> <<>>,
                 objective_value |-> 0, status |-> 0, has_status |-> FALSE,
                 changes |-> ChangesAbsent, baseline |-> None,
                 solved_now |-> FALSE, after_run |-> FALSE]
    /\ markedUnavailable = {}
    /\ grounded = {}
    /\ batch = NoBatch
    /\ log = <<>>
    /\ mutations = <<>>
    /\ response = NoResponse
    /\ threads = [t \in Threads |-> IdleThread]

\* One program runs at a time: the manager's calls wait for a running script.
Next ==
    \/ /\ batch.script = "none"
       /\ \E crew_id \in CrewIdInputs, available \in BOOLEAN :
            update_crew_availability(crew_id, available)
       /\ UNCHANGED <<response, threads>>
    \/ /\ batch.script = "none"
       /\ \E aircraft_id \in AircraftIdInputs, hours \in HoursInputs :
            add_maintenance_alert(aircraft_id, hours)
       /\ UNCHANGED <<response, threads>>
    \/ batch.script = "none" /\ Recompute /\ UNCHANGED <<response, threads>>
    \/ batch.script = "none" /\ get_current_schedule /\ UNCHANGED <<response, threads>>
    \/ enhanced_scheduler /\ UNCHANGED <<response, threads>>
    \/ enhanced_scheduler_exit /\ UNCHANGED <<response, threads>>

Spec == Init /\ [][Next]_vars

----------------------------------------------------------------------------
(* The dispatcher: LLMSchedulerBot.chat on a structured command *)

\* The manager's part of the state.
managerVars ==
    <<flights, time_slots, aircraft, crew, previous_schedule,
      previous_objective, solved, result, markedUnavailable, grounded, batch,
      crew_csv, aircraft_csv, log, mutations>>

\* Variant: only a missing identifier counts, an empty one passes.
TruthyId_NotNone(opt) == opt # None

\* if crew_id: / if aircraft_id: of an identifier that may be None or empty
TruthyId(opt) == opt # None /\ opt[1] # ""

\* A line of text that is not a change line: a marker or a piece of one.
Text(s) == Line(s, "", "", "", 0)

\* What iterating over the marker string yields: its characters.
Chars(s) ==
    CASE s = "Initial optimization" ->
           <<"I", "n", "i", "t", "i", "a", "l", " ", "o", "p", "t", "i", "m",
             "i", "z", "a", "t", "i", "o", "n">>
      [] s = "" -> <<>>

\* if result.get('changes'):
HasChanges(changes) ==
    \/ changes.kind = "list" /\ changes.list # <<>>
    \/ changes.kind = "str" /\ changes.str # ""

\* for change in result['changes']: one bullet per item of the iteration
ChangeBullets(changes) ==
    IF changes.kind = "list" THEN changes.list
    ELSE IF changes.kind = "str"
    THEN [i \in 1..Len(Chars(changes.str)) |-> Text(Chars(changes.str)[i])]
    ELSE <<>>

\* f"{value:.0f}" of a value kept in tenths: rounded to the nearest integer,
\* a half to the even one.
FormatF0(tenths) ==
    LET whole == tenths \div 10
        rest == tenths % 10
    IN IF rest < 5 THEN whole
       ELSE IF rest > 5 THEN whole + 1
       ELSE IF whole % 2 = 0 THEN whole ELSE whole + 1

\* result['schedule'][:5]
FirstFive(schedule) ==
    SubSeq(schedule, 1, IF Len(schedule) < 5 THEN Len(schedule) ELSE 5)

\* _format_crew_response and _format_maintenance_response: the same body
\* under two headings.
FormatMutationResponse(kind, r) ==
    [command |-> NoResponse.command, kind |-> kind, text |-> "",
     status |-> IF r.status = OPTIMAL THEN "Optimal" ELSE "Infeasible",
     has_changes |-> HasChanges(r.changes),
     bullets |-> IF HasChanges(r.changes) THEN ChangeBullets(r.changes)
                 ELSE <<>>,
     schedule |-> FirstFive(r.schedule),
     more |-> IF Len(r.schedule) > 5 THEN Len(r.schedule) - 5 ELSE 0,
     objective_value |-> FormatF0(r.objective_value)]

_format_crew_response(r) == FormatMutationResponse("crew", r)
_format_maintenance_response(r) == FormatMutationResponse("maintenance", r)

\* _format_schedule_response
_format_schedule_response(r) ==
    [command |-> NoResponse.command,
     kind |-> "schedule", text |-> "", status |-> "", has_changes |-> FALSE,
     bullets |-> <<>>, schedule |-> r.schedule, more |-> 0,
     objective_value |-> FormatF0(r.objective_value)]

\* A reply that is a literal message.
Message(action_data, text) ==
    [NoResponse EXCEPT !.command = action_data, !.kind = "message",
                       !.text = text]

\* chat's except clause: an exception out of _execute_action becomes the
\* reply "Error processing request: ..."; otherwise the formatted reply.
\* The reply is kept with the command it answers.
Reply(action_data, r, formatted) ==
    IF r.outcome = "raised"
    THEN [NoResponse EXCEPT !.command = action_data, !.kind = "error",
                            !.text = "Error processing request"]
    ELSE [formatted EXCEPT !.command = action_data]

\* A field of a command: missing, empty, or one of the identifiers.
IdOptions(ids) == {None, <<"">>} \cup {<<id>> : id \in ids}

\* The commands the dispatcher is tried on: every action with its fields
\* present, and with a field missing or empty.
CommandInputs ==
    {Command("crew_unavailable", crew_id, None, None) :
        crew_id \in IdOptions(CrewIdInputs)}
    \cup {Command("maintenance_alert", None, <<aircraft_id>>, <<hours>>) :
            aircraft_id \in AircraftIdInputs, hours \in HoursInputs}
    \cup {Command("maintenance_alert", None, aircraft_id, None) :
            aircraft_id \in IdOptions(AircraftIdInputs)}
    \cup {Command("maintenance_alert", None, aircraft_id, <<0>>) :
            aircraft_id \in {None, <<"">>}}
    \cup {Command(action, None, None, None) :
            action \in {"show_schedule", "add_flight", "remove_flight",
                        "unknown", "reroute"}}

\* The literal reply of the branches of _execute_action that call nothing.
LiteralReply(action_data) ==
    CASE action_data.action = "crew_unavailable" ->
           "Error: No crew ID specified"
      [] action_data.action = "maintenance_alert" ->
           "Error: No aircraft ID or hours specified"
      [] action_data.action = "add_flight" ->
           "Add flight functionality not yet implemented"
      [] action_data.action = "remove_flight" ->
           "Remove flight functionality not yet implemented"
      [] action_data.action = "unknown" -> "explanation"
      [] OTHER -> "Unknown action"

\* Variant: the availability is taken from the command, either way.
execute_crew_unavailable_Either(crew_id) ==
    \E available \in BOOLEAN : update_crew_availability(crew_id, available)

\* self.constraint_manager.update_crew_availability(crew_id, False)
execute_crew_unavailable(crew_id) ==
    update_crew_availability(crew_id, FALSE)

\* LLMSchedulerBot.chat from the structured command on: _execute_action
\* inside the try block.
chat(action_data) ==
    IF /\ action_data.action = "crew_unavailable"
       /\ TruthyId(action_data.crew_id)
    THEN /\ execute_crew_unavailable(action_data.crew_id[1])
         /\ response' = Reply(action_data, result',
                             _format_crew_response(result'))
    ELSE IF /\ action_data.action = "maintenance_alert"
            /\ TruthyId(action_data.aircraft_id)
            /\ action_data.hours # None
    THEN /\ add_maintenance_alert(action_data.aircraft_id[1],
                                  action_data.hours[1])
         /\ response' = Reply(action_data, result',
                             _format_maintenance_response(result'))
    ELSE IF action_data.action = "show_schedule"
    THEN /\ get_current_schedule
         /\ response' = Reply(action_data, result',
                             _format_schedule_response(result'))
    ELSE /\ response' = Message(action_data, LiteralReply(action_data))
         /\ UNCHANGED managerVars

ChatNext ==
    /\ \E action_data \in CommandInputs : chat(action_data)
    /\ UNCHANGED threads

\* The bot over a freshly constructed manager whose aircraft table holds no
\* aircraft in maintenance.
ChatInit ==
    /\ Init
    /\ \A a_idx \in 1..Len(aircraft) :
         aircraft[a_idx].InMaintenance = "bool:False"

\* The manager is driven by commands only.
ChatSpec == ChatInit /\ [][ChatNext]_vars

----------------------------------------------------------------------------
(* Mutation calls from concurrent callers.  ConstraintManager takes no lock, *)
(* so a second caller's statements may run between any two statements of    *)
(* the first; model.optimize() releases the interpreter while it solves.    *)

\* The callers inside a mutation call.
Running == {t \in Threads : threads[t].pc # "idle"}

\* update_crew_availability entered: the assignment to self.crew
enter_update_crew_availability(t, crew_id, available) ==
    /\ threads[t].pc = "idle"
    /\ batch.script = "none"
    /\ Len(mutations) < MaxLog
    /\ crew' = SetOnDuty(crew, crew_id, available)
    /\ markedUnavailable' =
         IF available THEN markedUnavailable \ {crew_id}
         ELSE IF \E i \in 1..Len(crew) :
                     crew[i].CrewID = crew_id /\ crew[i].OnDuty
              THEN markedUnavailable \cup {crew_id}
              ELSE markedUnavailable
    /\ mutations' = Append(mutations,
           Call("update_crew_availability", crew_id, 0, available))
    /\ threads' = [threads EXCEPT ![t] =
           [IdleThread EXCEPT !.pc = "to_csv",
               !.call = Call("update_crew_availability", crew_id, 0,
                             available)]]
    /\ UNCHANGED <<flights, time_slots, aircraft, previous_schedule,
                   previous_objective, solved, result, grounded, batch,
                   crew_csv, aircraft_csv, log, response>>

\* add_maintenance_alert entered: the assignment to self.aircraft
enter_add_maintenance_alert(t, aircraft_id, hours) ==
    /\ threads[t].pc = "idle"
    /\ batch.script = "none"
    /\ Len(mutations) < MaxLog
    /\ aircraft' = SetMaintenanceDue(aircraft, aircraft_id, hours)
    /\ grounded' =
         IF hours > 0 THEN grounded \ {aircraft_id}
         ELSE IF \E i \in 1..Len(aircraft) :
                     aircraft[i].AircraftID = aircraft_id
              THEN grounded \cup {aircraft_id}
              ELSE grounded
    /\ mutations' = Append(mutations,
           Call("add_maintenance_alert", aircraft_id, hours, FALSE))
    /\ threads' = [threads EXCEPT ![t] =
           [IdleThread EXCEPT !.pc = "to_csv",
               !.call = Call("add_maintenance_alert", aircraft_id, hours,
                             FALSE)]]
    /\ UNCHANGED <<flights, time_slots, crew, previous_schedule,
                   previous_objective, solved, result, markedUnavailable,
                   batch, crew_csv, aircraft_csv, log, response>>

\* The caller's to_csv: the table as it is in memory at that moment.
save_table(t) ==
    /\ threads[t].pc = "to_csv"
    /\ IF threads[t].call.op = "update_crew_availability"
       THEN crew_csv' = crew_to_csv(crew) /\ UNCHANGED aircraft_csv
       ELSE aircraft_csv' = aircraft_to_csv(aircraft) /\ UNCHANGED crew_csv
    /\ threads' = [threads EXCEPT ![t].pc = "_log_change"]
    /\ UNCHANGED <<flights, time_slots, aircraft, crew, previous_schedule,
                   previous_objective, solved, result, markedUnavailable,
                   grounded, batch, log, mutations, response>>

\* The caller's self._log_change(...)
write_log(t) ==
    /\ threads[t].pc = "_log_change"
    /\ log' = _log_change(
                IF threads[t].call.op = "update_crew_availability"
                THEN CrewLine(threads[t].call.id, threads[t].call.flag)
                ELSE AircraftLine(threads[t].call.id, threads[t].call.arg))
    /\ threads' = [threads EXCEPT ![t].pc = "reoptimize"]
    /\ UNCHANGED <<flights, time_slots, aircraft, crew, previous_schedule,
                   previous_objective, solved, result, markedUnavailable,
                   grounded, batch, crew_csv, aircraft_csv, mutations,
                   response>>

\* reoptimize up to the solver call: old_schedule is read.
read_previous(t) ==
    /\ threads[t].pc = "reoptimize"
    /\ threads' = [threads EXCEPT ![t].pc = "_run_optimization",
                                  ![t].old_schedule = previous_schedule]
    /\ UNCHANGED <<managerVars, response>>

\* self._run_optimization(): the model is built from the tables as they are
\* now, solved, and the schedule extracted.
run_optimization(t) ==
    /\ threads[t].pc = "_run_optimization"
    /\ LET d == Data(aircraft, crew)
       IN \E o \in Optimize(d) :
            /\ solved' = o
            /\ IF ExtractRaises(d, o)
               THEN /\ result' = Raised(threads[t].call)
                    /\ threads' = [threads EXCEPT ![t] = IdleThread]
               ELSE /\ threads' =
                        [threads EXCEPT
                           ![t].pc = "store",
                           ![t].schedule = _extract_schedule(d, o.x),
                           ![t].objective_value =
                               ObjVal(BuildModel(d), o.x, Len(d.flights))
                               + OvertimeSum(o.overtime, Len(d.crew))]
                    /\ UNCHANGED result
    /\ UNCHANGED <<flights, time_slots, aircraft, crew, previous_schedule,
                   previous_objective, markedUnavailable, grounded, batch,
                   crew_csv, aircraft_csv, log, mutations, response>>

\* reoptimize after the solver call: the result is stored, compared with
\* the old_schedule read before, and returned.
store_and_compare(t) ==
    /\ threads[t].pc = "store"
    /\ previous_schedule' = StoreSchedule(threads[t].schedule)
    /\ previous_objective' = <<threads[t].objective_value>>
    /\ result' =
         [call |-> threads[t].call, outcome |-> "returned",
          schedule |-> threads[t].schedule,
          objective_value |-> threads[t].objective_value,
          status |-> OPTIMAL, has_status |-> TRUE,
          changes |->
             IF Truthy(threads[t].old_schedule)
             THEN ChangesList(_compare_schedules(threads[t].old_schedule[1],
                                                 threads[t].schedule))
             ELSE ChangesStr("Initial optimization"),
          baseline |-> threads[t].old_schedule,
          solved_now |-> TRUE, after_run |-> RunCompleted]
    /\ threads' = [threads EXCEPT ![t] = IdleThread]
    /\ UNCHANGED <<flights, time_slots, aircraft, crew, solved,
                   markedUnavailable, grounded, batch, crew_csv, aircraft_csv,
                   log, mutations, response>>

ConcurrentNext ==
    \E t \in Threads :
        \/ \E crew_id \in CrewIdInputs, available \in BOOLEAN :
             enter_update_crew_availability(t, crew_id, available)
        \/ \E aircraft_id \in AircraftIdInputs, hours \in HoursInputs :
             enter_add_maintenance_alert(t, aircraft_id, hours)
        \/ save_table(t)
        \/ write_log(t)
        \/ read_previous(t)
        \/ run_optimization(t)
        \/ store_and_compare(t)

\* One manager whose mutation methods are called from two threads.
ConcurrentSpec == Init /\ [][ConcurrentNext]_vars

----------------------------------------------------------------------------
(* The SLA indicator of the batch models, on its own: one flight, one slot *)

\* The minutes of the day the encoding is tried on: around every multiple of
\* MinuteStep, and the last minute.
MinuteInputs ==
    {minute \in 0..1439 : minute % MinuteStep \in {0, 1, MinuteStep - 1}}
    \cup {1438, 1439}

\* A model with one flight whose deadline is sla_deadline and one slot at
\* slot_minute.
SlaModel(slot_minute, sla_deadline) ==
    [flights |-> <<[SLADeliveryTimeMin |-> sla_deadline]>>,
     time_slots |-> << <<slot_minute \div 60, slot_minute % 60>> >>]

\* The values of sla_missed[0] that satisfy sla_miss_logic1 and
\* sla_miss_logic2 when the flight takes the slot.
SlaValues(slot_minute, sla_deadline) ==
    LET m == SlaModel(slot_minute, sla_deadline)
        c == [is_time |-> {1}]
    IN {v \in [sla_missed : {0, 1}] :
           /\ sla_miss_logic1(m, 1, c, v)
           /\ sla_miss_logic2(m, 1, c, v)}

\* The two SLA constraints solved for one flight in one slot.
sla_missed_logic(slot_minute, sla_deadline) ==
    /\ batch.script = "none"
    /\ IF SlaValues(slot_minute, sla_deadline) = {}
       THEN batch' = [NoBatch EXCEPT !.script = "sla_missed",
                        !.outcome = "infeasible",
                        !.x = <<[slot_minute |-> slot_minute,
                                 sla_deadline |-> sla_deadline,
                                 sla_missed |-> 0]>>]
       ELSE \E v \in SlaValues(slot_minute, sla_deadline) :
              batch' = [NoBatch EXCEPT !.script = "sla_missed",
                          !.outcome = "feasible",
                          !.x = <<[slot_minute |-> slot_minute,
                                   sla_deadline |-> sla_deadline,
                                   sla_missed |-> v.sla_missed]>>]
    /\ UNCHANGED <<flights, time_slots, aircraft, crew, previous_schedule,
                   previous_objective, solved, result, markedUnavailable,
                   grounded, crew_csv, aircraft_csv, log, mutations, response,
                   threads>>

SlaInit == ChatInit /\ flights = <<>>

SlaNext ==
    \E slot_minute \in MinuteInputs, sla_deadline \in MinuteInputs :
        sla_missed_logic(slot_minute, sla_deadline)

SlaSpec == SlaInit /\ [][SlaNext]_vars

----------------------------------------------------------------------------
(* _compare_schedules as a function of two schedule lists *)

\* A record as _extract_schedule builds it for row f of the flight table.
Record(f, slot, ac_id, cr_id, delay) ==
    [flight_number |-> FlightTable[f].FlightNumber,
     departure_time |-> slot,
     aircraft |-> ac_id,
     crew |-> cr_id,
     cargo_type |-> FlightTable[f].CargoType,
     priority |-> FlightTable[f].CargoPriorityScore,
     delay |-> delay]

\* The records of row f the comparison is tried on: one, and the same with
\* another aircraft, another crew, another delay, another slot.
RecordInputs(f) ==
    LET ts == CHOOSE t \in SlotTables : TRUE
    IN {Record(f, ts[1], AircraftIDs[1], CrewIDs[1], 0),
        Record(f, ts[1], AircraftIDs[2], CrewIDs[1], 0),
        Record(f, ts[1], AircraftIDs[1], CrewIDs[2], 0),
        Record(f, ts[1], AircraftIDs[1], CrewIDs[1], 10),
        Record(f, ts[2], AircraftIDs[1], CrewIDs[1], 0)}

\* The schedule lists: up to MaxCompared records of different flights, in
\* any order.
ScheduleInputs ==
    UNION {{sch \in [1..n -> UNION {RecordInputs(f) : f \in 1..MaxCompared}] :
               \A i, j \in 1..n :
                   sch[i].flight_number = sch[j].flight_number => i = j}
           : n \in 0..MaxCompared}

\* A call _compare_schedules(old_schedule, new_schedule), the old list being
\* the stored one.
compare(new_schedule) ==
    /\ result' = [call |-> Call("_compare_schedules", "", 0, FALSE),
                  outcome |-> "returned",
                  schedule |-> new_schedule,
                  objective_value |-> 0, status |-> 0, has_status |-> FALSE,
                  changes |-> ChangesList(
                      _compare_schedules(previous_schedule[1], new_schedule)),
                  baseline |-> previous_schedule,
                  solved_now |-> FALSE, after_run |-> FALSE]
    /\ UNCHANGED <<flights, time_slots, aircraft, crew, previous_schedule,
                   previous_objective, solved, markedUnavailable, grounded,
                   batch, crew_csv, aircraft_csv, log,
                   mutations, response, threads>>

\* The manager as constructed over an empty flights table, with any schedule
\* list stored as the old one.
CompareInit ==
    /\ flights = <<>>
    /\ time_slots \in SlotTables
    /\ aircraft_csv = [i \in 1..Len(AircraftIDs) |->
                          [AircraftID |-> AircraftIDs[i],
                           InMaintenance |-> "FALSE",
                           MaintenanceDue |-> MaintenanceDueColumn[i]]]
    /\ aircraft = read_aircraft_csv(aircraft_csv)
    /\ crew_csv = [i \in 1..Len(CrewIDs) |->
                      [CrewID |-> CrewIDs[i], OnDuty |-> "TRUE",
                       MaxDutyHours |-> CrewDuty.MaxDutyHours,
                       HoursWorked |-> CrewDuty.HoursWorked]]
    /\ crew = read_crew_csv(crew_csv)
    /\ \E old_schedule \in ScheduleInputs :
         previous_schedule = <<old_schedule>>
    /\ previous_objective = <<0>>
    /\ solved = [status |-> "none", x |-> <<>>, overtime |-> <<>>,
                 model |-> None]
    /\ result = [call |-> NoCall, outcome |-> "none", schedule |-> <<>>,
                 objective_value |-> 0, status |-> 0, has_status |-> FALSE,
                 changes |-> ChangesAbsent, baseline |-> None,
                 solved_now |-> FALSE, after_run |-> FALSE]
    /\ markedUnavailable = {}
    /\ grounded = {}
    /\ batch = NoBatch
    /\ log = <<>>
    /\ mutations = <<>>
    /\ response = NoResponse
    /\ threads = [t \in Threads |-> IdleThread]

CompareNext == \E new_schedule \in ScheduleInputs : compare(new_schedule)

CompareSpec == CompareInit /\ [][CompareNext]_vars

----------------------------------------------------------------------------
(* Properties *)

\* The last call returned the schedule of an optimization run it made.
ReturnedRun == result.outcome = "returned" /\ result.solved_now

AircraftRow(id) == CHOOSE i \in 1..Len(aircraft) : aircraft[i].AircraftID = id
CrewRow(id) == CHOOSE i \in 1..Len(crew) : crew[i].CrewID = id
RecordMinute(r) == parse_time(r.departure_time)

\* C1: a schedule returned by a reoptimization holds one record per loaded
\* flight, in which exactly one time slot, one aircraft and one crew member
\* were selected by the solved model, and the record names those.
C1_EveryFlightOnce ==
    ReturnedRun =>
        /\ Len(result.schedule) = Len(flights)
        /\ \A f \in 1..Len(flights) :
            /\ Cardinality({g \in 1..Len(result.schedule) :
                    result.schedule[g].flight_number = flights[f].FlightNumber}) = 1
            /\ \E t \in 1..Len(time_slots), a \in 1..Len(aircraft),
                  c \in 1..Len(crew) :
                /\ solved.x[f].is_time = {t}
                /\ solved.x[f].aircraft_used = {a}
                /\ solved.x[f].crew_assigned = {c}
                /\ result.schedule[f].flight_number = flights[f].FlightNumber
                /\ result.schedule[f].departure_time = time_slots[t]
                /\ result.schedule[f].aircraft = aircraft[a].AircraftID
                /\ result.schedule[f].crew = crew[c].CrewID

C1_Witness ==
    /\ ReturnedRun
    /\ Len(flights) >= 2
    /\ result.call.op = "add_maintenance_alert"
    /\ result.baseline # None

\* C2: once a crew member who was on duty has been marked unavailable (and
\* not made available again), no schedule returned by a reoptimization
\* assigns that crew member.
C2_UnavailableCrewNotAssigned ==
    ReturnedRun =>
        \A f \in 1..Len(result.schedule) :
            result.schedule[f].crew \notin markedUnavailable

C2_Witness ==
    /\ ReturnedRun
    /\ result.call.op = "update_crew_availability"
    /\ ~result.call.flag
    /\ result.call.id \in markedUnavailable
    /\ Len(result.schedule) >= 2
    /\ result.baseline # None
    /\ \E f \in 1..Len(result.schedule) :
          result.baseline[1][f].crew = result.call.id

\* C3: once an existing aircraft has been alerted with hours <= 0 (and no
\* later alert has raised its hours above 0), no schedule returned by a
\* reoptimization assigns that aircraft.
C3_GroundedAircraftNotAssigned ==
    ReturnedRun =>
        \A f \in 1..Len(result.schedule) :
            result.schedule[f].aircraft \notin grounded

C3_Witness ==
    /\ ReturnedRun
    /\ result.call.op = "add_maintenance_alert"
    /\ result.call.arg = 0
    /\ result.call.id \in grounded
    /\ Len(result.schedule) >= 2
    /\ result.baseline # None
    /\ \E f \in 1..Len(result.schedule) :
          result.baseline[1][f].aircraft = result.call.id

\* The in-maintenance flag of an aircraft row is set.
FlagSet(ac) == ac.InMaintenance \in {"bool:True", "str:TRUE"}

\* C4: an aircraft whose in-maintenance flag is set in the loaded aircraft
\* table is assigned to no flight of a produced schedule.
C4_FlaggedAircraftNotAssigned ==
    ReturnedRun =>
        \A f \in 1..Len(result.schedule) :
            ~FlagSet(aircraft[AircraftRow(result.schedule[f].aircraft)])

\* C5: in a schedule returned by a reoptimization no aircraft serves two
\* flights whose slots are the same or less than the minimum turnaround
\* apart.
C5_AircraftTurnaround ==
    ReturnedRun =>
        \A f, g \in 1..Len(result.schedule) :
            (f # g /\ result.schedule[f].aircraft = result.schedule[g].aircraft)
            => Abs(RecordMinute(result.schedule[f])
                   - RecordMinute(result.schedule[g])) >= MIN_TURNAROUND

\* The script printed the schedule of the model it solved.
Printed == batch.outcome = "printed"

\* No crew member is on two flights of the schedule sch whose slots are the
\* same or less than gap minutes apart (gap 1: the same slot).
CrewApart(sch, gap) ==
    \A f, g \in 1..Len(sch) :
        (f # g /\ sch[f].crew = sch[g].crew)
        => Abs(RecordMinute(sch[f]) - RecordMinute(sch[g])) >= gap

\* C6 as stated: in every produced schedule, of the batch script and of a
\* reoptimization alike, no crew member serves two flights whose slots are
\* the same or less than the minimum turnaround apart.
C6_CrewTurnaround ==
    /\ ReturnedRun => CrewApart(result.schedule, MIN_TURNAROUND)
    /\ Printed => CrewApart(batch.schedule, MIN_TURNAROUND)

\* C6: in every produced schedule, of the batch script and of a
\* reoptimization alike, no crew member serves two different flights that
\* chose the same time slot.
C6_CrewNotDoubleBooked ==
    /\ ReturnedRun =>
         \A f, g \in 1..Len(result.schedule) :
            (f # g /\ result.schedule[f].crew = result.schedule[g].crew)
            => result.schedule[f].departure_time
                 # result.schedule[g].departure_time
    /\ Printed =>
         \A f, g \in 1..Len(batch.schedule) :
            (f # g /\ batch.schedule[f].crew = batch.schedule[g].crew)
            => batch.schedule[f].departure_time
                 # batch.schedule[g].departure_time

\* The script printed two flights, in one slot with two crews, while the
\* manager's last schedule has one crew member on two flights.
C6_Witness ==
    /\ Printed
    /\ Len(batch.schedule) = 2
    /\ batch.schedule[1].departure_time = batch.schedule[2].departure_time
    /\ batch.schedule[1].crew # batch.schedule[2].crew
    /\ ReturnedRun
    /\ Len(result.schedule) = 2
    /\ result.schedule[1].crew = result.schedule[2].crew
    /\ result.schedule[1].departure_time # result.schedule[2].departure_time

\* C7: in a schedule returned from an optimal solution every record's delay
\* is >= 0 and equals max(0, minute of the chosen slot - scheduled
\* departure minute).
C7_DelayIsClampedDifference ==
    (ReturnedRun /\ result.status = OPTIMAL) =>
        \A f \in 1..Len(result.schedule) :
            /\ result.schedule[f].delay >= 0
            /\ result.schedule[f].delay =
                 Max(0, RecordMinute(result.schedule[f])
                        - flights[f].ScheduledDepartureMin)

C7_Witness ==
    /\ ReturnedRun
    /\ result.status = OPTIMAL
    /\ \E f, g \in 1..Len(result.schedule) :
          /\ result.schedule[f].delay > 0
          /\ RecordMinute(result.schedule[g]) < flights[g].ScheduledDepartureMin
          /\ result.schedule[g].delay = 0

\* C8: in the model solved by a reoptimization, sla_missed(f) is 1 exactly
\* when the chosen departure minute strictly exceeds the flight's SLA
\* deadline minute.
C8_SlaMissedIffLate ==
    ReturnedRun =>
        \A f \in 1..Len(result.schedule) :
            (solved.x[f].sla_missed = 1)
            <=> (RecordMinute(result.schedule[f]) > flights[f].SLADeliveryTimeMin)

\* C9: a recompute that directly follows a completed optimization run, with
\* no mutation in between, returns the schedule of that run, and its
\* changes is exactly ["No changes detected"].
C9_RecomputeIdempotent ==
    (result.call.op = "reoptimize" /\ result.after_run) =>
        /\ result.outcome = "returned"
        /\ result.baseline = <<result.schedule>>
        /\ result.changes = ChangesList(<<NoChangesDetected>>)

\* C10: a reoptimization returns changes = "Initial optimization" exactly
\* when no earlier optimization run has completed (the baseline has never
\* been stored); every later successful run returns a list of change lines.
C10_InitialMarkerOnlyFirst ==
    ReturnedRun =>
        /\ (result.changes = ChangesStr("Initial optimization"))
              <=> (result.baseline = None)
        /\ (result.baseline # None) => result.changes.kind = "list"

\* C11: in a schedule returned by a reoptimization the aircraft and the crew
\* of every record are a pair the certification matrix allows.
C11_CertifiedPairs ==
    ReturnedRun =>
        \A f \in 1..Len(result.schedule) :
            loc(certification_matrix, result.schedule[f].aircraft,
                result.schedule[f].crew) = 1

\* C12: in a schedule returned by a reoptimization every record's slot time
\* lies inside the operating window, 02:00 to 08:00 with both ends.
C12_SlotInsideWindow ==
    ReturnedRun =>
        \A f \in 1..Len(result.schedule) :
            /\ RecordMinute(result.schedule[f]) >= FLIGHT_WINDOW_START
            /\ RecordMinute(result.schedule[f]) <= FLIGHT_WINDOW_END

\* The aircraft id is gateway-incompatible with the flight row's origin or
\* destination.
GatewayIncompatible(id, flight) ==
    \/ loc(gateway_compatibility, id, flight.Origin) = 0
    \/ loc(gateway_compatibility, id, flight.Destination) = 0

\* In the solved flight values x every flight whose aircraft is
\* gateway-incompatible has gateway_violation = 1.
GatewayFlagged(x) ==
    \A f \in 1..Len(x) :
        (\E a_idx \in x[f].aircraft_used :
            GatewayIncompatible(aircraft[a_idx].AircraftID, flights[f]))
        => x[f].gateway_violation = 1

\* C13: in every solved model, of a reoptimization and of the batch script,
\* a flight's gateway_violation is 1 whenever its aircraft is
\* gateway-incompatible with the flight's origin or destination.
C13_GatewayViolationFlagged ==
    /\ ReturnedRun => GatewayFlagged(solved.x)
    /\ Printed => GatewayFlagged(batch.x)

\* The remaining duty budget of a crew row, in minutes.
DutyBudget(cr) == cr.MaxDutyHours * 60 - cr.HoursWorked * 60

\* In the solved model with flight values x, overtime ot is, for every crew
\* row, the excess of its flights' duration plus turnaround over its budget.
OvertimeIsExcess(x, ot) ==
    \A c_idx \in 1..Len(crew) :
        ot[c_idx] =
            Max(0, total_minutes([flights |-> flights], x, c_idx, Len(flights))
                     - DutyBudget(crew[c_idx]))

\* C14: in every solved model, of a reoptimization and of the batch script,
\* each crew member's overtime is max(0, sum of (duration + minimum
\* turnaround) over the member's flights - remaining duty budget).
C14_OvertimeIsExcess ==
    /\ ReturnedRun => OvertimeIsExcess(solved.x, solved.overtime)
    /\ Printed => OvertimeIsExcess(batch.x, batch.overtime)

\* The call c is a mutation whose identifier matches no row.
UnknownIdCall(c) ==
    \/ /\ c.op = "update_crew_availability"
       /\ \A i \in 1..Len(crew) : crew[i].CrewID # c.id
    \/ /\ c.op = "add_maintenance_alert"
       /\ \A i \in 1..Len(aircraft) : aircraft[i].AircraftID # c.id

\* The step is a call of the manager with an identifier that matches no row.
UnknownIdStep == batch' = batch /\ UnknownIdCall(result'.call)

ReoptimizingOps ==
    {"update_crew_availability", "add_maintenance_alert", "reoptimize"}

\* The step is such a call, and the engine reported its model infeasible.
InfeasibleStep ==
    /\ batch' = batch
    /\ result'.call.op \in ReoptimizingOps
    /\ solved'.status = "infeasible"

\* The step is a call of get_current_schedule with a baseline stored.
RetrieveStep ==
    /\ batch' = batch
    /\ result'.call.op = "get_current_schedule"
    /\ Truthy(previous_schedule)

\* C18: a reoptimization whose model the engine reports infeasible fails with
\* an error instead of returning a schedule and leaves the stored baseline
\* schedule and objective value unchanged; get_current_schedule returns the
\* stored baseline and its objective value.
C18_InfeasibleKeepsBaseline ==
    [][/\ InfeasibleStep =>
            /\ result'.outcome = "raised"
            /\ previous_schedule' = previous_schedule
            /\ previous_objective' = previous_objective
       /\ RetrieveStep =>
            /\ result'.outcome = "returned"
            /\ result'.schedule = previous_schedule[1]
            /\ result'.objective_value = previous_objective[1]
            /\ previous_schedule' = previous_schedule
            /\ previous_objective' = previous_objective]_vars

\* After a reoptimization failed on an infeasible model, get_current_schedule
\* returned the baseline stored before the failure.
C18_Witness ==
    /\ solved.status = "infeasible"
    /\ result.call.op = "get_current_schedule"
    /\ result.outcome = "returned"
    /\ ~result.solved_now
    /\ Len(result.schedule) > 0
    /\ previous_schedule = <<result.schedule>>

Lines(changes) == {changes[i] : i \in 1..Len(changes)}

\* C20: every change line _compare_schedules emits for a flight compares
\* that flight's record in the old list with that flight's record in the
\* new list, whatever the order of the records in the two lists.
C20_MatchedByIdentifier ==
    result.call.op = "_compare_schedules" =>
        \A line \in Lines(result.changes.list) \ {NoChangesDetected} :
            \E i \in 1..Len(result.baseline[1]), j \in 1..Len(result.schedule) :
                /\ result.baseline[1][i].flight_number = line.flight
                /\ result.schedule[j].flight_number = line.flight
                /\ line \in Lines(FlightChanges(result.baseline[1][i],
                                                result.schedule[j]))


----------------------------------------------------------------------------
(* The audit log *)

\* The line a mutation call writes to the log.
LineOf(call) ==
    IF call.op = "update_crew_availability"
    THEN CrewLine(call.id, call.flag)
    ELSE AircraftLine(call.id, call.arg)

\* C16: every update_crew_availability and add_maintenance_alert call appends
\* exactly one line to the audit log and no line is changed or removed later:
\* after n mutation calls the log holds the n lines of those calls, in call
\* order, whether or not the optimization that followed a call succeeded.
C16_OneLinePerCall ==
    /\ Len(log) = Len(mutations)
    /\ \A i \in 1..Len(mutations) : log[i] = LineOf(mutations[i])

\* Two mutation calls were made, the first one ended in a schedule and the
\* optimization after the second one failed.
C16_Witness ==
    /\ Len(mutations) = 2
    /\ mutations[1] # mutations[2]
    /\ result.call = mutations[2]
    /\ result.outcome = "raised"
    /\ previous_schedule # None


\* A step that is an update_crew_availability or add_maintenance_alert call.
MutationStep == mutations' # mutations

\* The call's changes are all in place: the tables in memory are the tables
\* on file, the log has the call's line, and a rebuilt schedule was returned.
AllUpdated ==
    /\ read_crew_csv(crew_csv') = crew'
    /\ read_aircraft_csv(aircraft_csv') = aircraft'
    /\ log' = Append(log, LineOf(mutations'[Len(mutations')]))
    /\ result'.outcome = "returned"
    /\ result'.solved_now

\* The call was rejected and left the records, the files and the log alone.
RejectedUnchanged ==
    /\ result'.outcome = "raised"
    /\ UNCHANGED <<crew, aircraft, crew_csv, aircraft_csv, log>>

\* C17: a mutation call is all-or-nothing: it either updates the record in
\* memory, the saved table and the audit log and returns the rebuilt
\* schedule, or it fails with none of them changed.
C17_AllOrNothing == [][MutationStep => (AllUpdated \/ RejectedUnchanged)]_vars


----------------------------------------------------------------------------
(* The change lines of _compare_schedules *)

\* The last call was _compare_schedules on two lists holding the same
\* flights in the same order, as _extract_schedule builds them from one
\* flights table.
SameFlightsCompared ==
    /\ result.call.op = "_compare_schedules"
    /\ Len(result.baseline[1]) = Len(result.schedule)
    /\ \A i \in 1..Len(result.schedule) :
         result.baseline[1][i].flight_number = result.schedule[i].flight_number

\* The lines of the given wording emitted for the given flight.
LinesFor(kind, flight) ==
    {line \in Lines(result.changes.list) :
        line.kind = kind /\ line.flight = flight}

Swapped(line) ==
    [line EXCEPT !.from = line.to, !.to = line.from,
                 !.kind = CASE line.kind = "Delayed by" -> "Reduced delay by"
                            [] line.kind = "Reduced delay by" -> "Delayed by"
                            [] OTHER -> line.kind]

\* A change line without the flight number it is labelled with.
Unlabelled(line) == [line EXCEPT !.flight = ""]

\* C22: for any two schedule lists A and B, _compare_schedules(B, A) returns
\* as many lines as _compare_schedules(A, B), each one the line of the other
\* direction with from/to swapped and "Delayed by"/"Reduced delay by"
\* exchanged at the same magnitude; lists of different lengths are compared
\* without an error.
C22_SwapSymmetric ==
    result.call.op = "_compare_schedules" =>
        LET forward == result.changes.list
            backward == _compare_schedules(result.schedule, result.baseline[1])
        IN /\ result.outcome = "returned"
           /\ Len(backward) = Len(forward)
           /\ \A k \in 1..Len(forward) :
                Unlabelled(backward[k]) = Unlabelled(Swapped(forward[k]))

\* Lists of different lengths were compared and the pair they share differs in
\* aircraft and in delay.
C22_Witness ==
    /\ result.call.op = "_compare_schedules"
    /\ Len(result.baseline[1]) # Len(result.schedule)
    /\ Len(result.changes.list) = 2
    /\ result.changes.list[1].kind = "Aircraft changed"
    /\ result.changes.list[2].kind = "Delayed by"


----------------------------------------------------------------------------
(* The dispatcher's commands *)

\* The command names an action the dispatcher does not carry out, or lacks
\* a field its action requires.
UnknownOrMalformed(action_data) ==
    \/ action_data.action \notin
          {"crew_unavailable", "maintenance_alert", "show_schedule"}
    \/ /\ action_data.action = "crew_unavailable"
       /\ (action_data.crew_id = None \/ action_data.crew_id = <<"">>)
    \/ /\ action_data.action = "maintenance_alert"
       /\ \/ action_data.aircraft_id = None
          \/ action_data.aircraft_id = <<"">>
          \/ action_data.hours = None

\* C23: a command whose action is not crew_unavailable, maintenance_alert or
\* show_schedule, or that lacks its required field, is answered with an
\* explanatory message and changes nothing: the crew and aircraft records,
\* the saved tables, the audit log and the stored baseline stay as they were.
C23_MalformedCommandNoMutation ==
    [][UnknownOrMalformed(response'.command) =>
          /\ response'.kind = "message"
          /\ response'.text = LiteralReply(response'.command)
          /\ UNCHANGED <<crew, aircraft, crew_csv, aircraft_csv, log,
                         previous_schedule, previous_objective>>]_vars

\* A command without its crew id was just answered, on a manager that holds
\* a baseline and has logged a change.
C23_Witness ==
    /\ response.kind = "message"
    /\ response.text = "Error: No crew ID specified"
    /\ previous_schedule # None
    /\ log # <<>>


\* C24: every result returned by get_current_schedule or by a reoptimization
\* call carries schedule, objective_value and changes, and changes is a list
\* of lines or the marker "Initial optimization"; this holds when
\* get_current_schedule runs the first optimization and when it returns the
\* stored baseline.
C24_ResultCarriesChanges ==
    (/\ result.outcome = "returned"
     /\ result.call.op \in {"get_current_schedule", "reoptimize",
                            "update_crew_availability",
                            "add_maintenance_alert"}) =>
        \/ result.changes.kind = "list"
        \/ result.changes = ChangesStr("Initial optimization")


----------------------------------------------------------------------------
(* Concurrent mutation calls *)

\* Caller t finishes its call in this step by storing its schedule.
Stores(t) == threads[t].pc = "store" /\ threads'[t].pc = "idle"

\* Caller t runs the optimization in this step.
Solves(t) == threads[t].pc = "_run_optimization" /\ threads'[t] # threads[t]

\* C25: mutation and rebuild cycles on one ConstraintManager are serialized:
\* of two calls issued concurrently one completes its whole cycle before the
\* other starts, so no optimization run reads tables another call is changing
\* and every diff is computed against the baseline its store replaces.
C25_CyclesSerialized ==
    [][/\ Cardinality(Running') <= 1
       /\ \A t \in Threads :
            /\ Solves(t) => Running = {t}
            /\ Stores(t) => threads[t].old_schedule = previous_schedule]_vars


----------------------------------------------------------------------------
(* The SLA indicator of the batch models *)

\* C26: in the batch models, for every slot minute and SLA deadline minute of
\* the day, the constraints sla_miss_logic1 and sla_miss_logic2 with big-M
\* 10000 have a solution, and in every solution sla_missed is 1 exactly when
\* the slot minute strictly exceeds the deadline (0 when they are equal).
C26_SlaMissedIffAfterDeadline ==
    batch.script = "sla_missed" =>
        /\ batch.outcome = "feasible"
        /\ (batch.x[1].sla_missed = 1)
              <=> (batch.x[1].slot_minute > batch.x[1].sla_deadline)

\* The slot is the deadline minute itself, late in the day: not missed.
C26_Witness ==
    /\ batch.script = "sla_missed"
    /\ batch.outcome = "feasible"
    /\ batch.x[1].slot_minute = batch.x[1].sla_deadline
    /\ batch.x[1].slot_minute > 1320
    /\ batch.x[1].sla_missed = 0


----------------------------------------------------------------------------
(* What the dispatcher shows *)

\* C27: after any sequence of commands, the schedule a show_schedule command
\* returns assigns no crew member whose OnDuty flag is false now and no
\* aircraft whose MaintenanceDue is 0 or less now.
C27_ShownScheduleRespectsRecords ==
    (response.kind = "schedule"
     /\ response.command.action = "show_schedule") =>
        \A f \in 1..Len(response.schedule) :
            /\ \A c_idx \in 1..Len(crew) :
                 crew[c_idx].CrewID = response.schedule[f].crew
                     => crew[c_idx].OnDuty
            /\ \A a_idx \in 1..Len(aircraft) :
                 aircraft[a_idx].AircraftID = response.schedule[f].aircraft
                     => aircraft[a_idx].MaintenanceDue > 0


\* C28: under any sequence of dispatcher commands no crew member's OnDuty
\* flag changes from false to true: the dispatcher calls
\* update_crew_availability with available = False only, so the set of crew
\* on duty only shrinks.
C28_OnDutyOnlyShrinks ==
    [][\A c_idx \in 1..Len(crew) :
          ~crew[c_idx].OnDuty => ~crew'[c_idx].OnDuty]_vars

\* A crew member is off duty and a further crew_unavailable command for that
\* member was answered since.
C28_Witness ==
    /\ Len(mutations) = 2
    /\ mutations[1].op = "update_crew_availability"
    /\ mutations[2] = mutations[1]
    /\ response.command.action = "crew_unavailable"
    /\ \E c_idx \in 1..Len(crew) :
         crew[c_idx].CrewID = mutations[1].id /\ ~crew[c_idx].OnDuty


----------------------------------------------------------------------------
(* "No changes detected" *)

\* C29: whenever a reoptimization returns changes = ["No changes detected"],
\* the new schedule equals the previous baseline in every field of every
\* flight record, the departure time slot included.
C29_NoChangesMeansEqual ==
    (/\ ReturnedRun
     /\ Truthy(result.baseline)
     /\ result.changes = ChangesList(<<NoChangesDetected>>)) =>
        result.schedule = result.baseline[1]


----------------------------------------------------------------------------
(* The "Changes Made" bullets *)

\* The entries of a result's changes: the lines of a list, or the marker.
ChangeEntries(changes) ==
    IF changes.kind = "list" THEN {changes.list[i] : i \in 1..Len(changes.list)}
    ELSE IF changes.kind = "str" THEN {Text(changes.str)}
    ELSE {}

\* C30: in the response to a crew_unavailable or maintenance_alert command,
\* each bullet under "Changes Made" is one whole entry of changes, a complete
\* change line or the marker "Initial optimization", also when the command
\* triggered the first optimization run.
C30_BulletsAreWholeEntries ==
    response.kind \in {"crew", "maintenance"} =>
        \A i \in 1..Len(response.bullets) :
            response.bullets[i] \in ChangeEntries(result.changes)

====
